---------------------------- MODULE Spec2Model ----------------------------
(***************************************************************************)
(* Model of src/content/perplexity.js, the Perplexity content script of    *)
(* the AI Panel extension: the message injector (injectMessage), the       *)
(* mutation watcher (setupResponseObserver / checkForResponse), the        *)
(* response-completion detector (waitForStreamingComplete) and the         *)
(* snapshot query (GET_LATEST_RESPONSE / getLatestResponse).               *)
(*                                                                         *)
(* JavaScript runs one task at a time, so every action below is one        *)
(* synchronous segment of the script: from an event (message, timer,       *)
(* mutation batch) to the next await or return.                            *)
(***************************************************************************)
EXTENDS Integers, Sequences, FiniteSets, TLC

VARIABLES
    hostValid,            \* chrome.runtime && chrome.runtime.id is truthy
    loaded,               \* the script body (lines 3-240) has run
    readyState,           \* document.readyState as the script sees it
    observer,             \* "none" | "waiting" | "observing" | "disconnected"
    dom,                  \* answer DOM: selector index -> innerText of the matched elements
    lastCapturedContent,  \* line 136
    isCapturing,          \* line 137
    sessions,             \* the running loops of waitForStreamingComplete, oldest first
    lastEnd,              \* how the most recently finished loop ended (until the next starts)
    readySent,            \* CONTENT_SCRIPT_READY messages chrome.runtime.sendMessage accepted
    lastSent,             \* the latest RESPONSE_CAPTURED message it accepted
    uncaught,             \* an exception escaped to a caller of safeSendMessage
    inj,                  \* the INJECT_MESSAGE requests and their responses
    events,               \* per request: DOM writes / dispatched events / detector start request, in order
    snap                  \* the latest GET_LATEST_RESPONSE response, and the state it was taken in

vars == <<hostValid, loaded, readyState, observer, dom, lastCapturedContent,
          isCapturing, sessions, lastEnd, readySent, lastSent, uncaught, inj, events,
          snap>>

----------------------------------------------------------------------------
(* Bounds of the model *)

MaxInject == 1
MaxTicks == 4
DeepTicks == 9
SnapTicks == 6
LongSleep == 600000

(* Program constants *)

maxWait == 600000
checkInterval == 500
stableThreshold == 4
minTextLength == 10

AI_TYPE == "perplexity"

----------------------------------------------------------------------------
(* Text: a sequence of one-character strings. *)

RECURSIVE Rep(_, _)
Rep(c, n) == IF n = 0 THEN <<>> ELSE <<c>> \o Rep(c, n - 1)

IsSpace(c) == c = " "

RECURSIVE TrimLeft(_)
TrimLeft(t) ==
    IF Len(t) > 0 /\ IsSpace(Head(t)) THEN TrimLeft(Tail(t)) ELSE t

RECURSIVE TrimRight(_)
TrimRight(t) ==
    IF Len(t) > 0 /\ IsSpace(t[Len(t)])
    THEN TrimRight(SubSeq(t, 1, Len(t) - 1))
    ELSE t

\* String.prototype.trim
trim(t) == TrimRight(TrimLeft(t))

\* sentinels; no text contains a multi-character element
Null == <<"null">>
Undefined == <<"undefined">>

TxtA == Rep("a", minTextLength + 1)
TxtB == Rep("b", minTextLength + 2)
TxtAPad == <<" ">> \o TxtA \o <<" ", " ">>
TxtShort == Rep("a", minTextLength)
TxtBlank == <<" ", " ">>

----------------------------------------------------------------------------
(* The answer DOM: what document.querySelectorAll returns for each of the  *)
(* five selectors of getLatestResponse, as the innerText of each element   *)
(* in document order.                                                      *)

NumSelectors == 5

NoMatch == [i \in 1..NumSelectors |-> <<>>]

DomEmpty == NoMatch
DomA == [NoMatch EXCEPT ![2] = <<TxtA>>]
DomAPad == [NoMatch EXCEPT ![1] = <<TxtB, TxtAPad>>, ![2] = <<TxtB, TxtAPad>>]
DomB == [NoMatch EXCEPT ![2] = <<TxtA, TxtB>>, ![4] = <<TxtA>>]
DomFall == [NoMatch EXCEPT ![2] = <<TxtShort>>, ![3] = <<Undefined>>, ![4] = <<TxtBlank, TxtB>>]

DomSet == {DomEmpty, DomAPad, DomFall}

\* lines 219-229 taking elements[0] for the last element (line 223)
RECURSIVE getLatestResponseFromFirstElement(_, _)
getLatestResponseFromFirstElement(d, i) ==
    IF i > NumSelectors THEN Null
    ELSE LET elements == d[i] IN
         IF Len(elements) > 0
         THEN LET lastElement == elements[1]
                  text == IF lastElement = Undefined THEN Undefined
                          ELSE trim(lastElement)
              IN IF text # Undefined /\ Len(text) > 0 /\ Len(text) > minTextLength
                 THEN text
                 ELSE getLatestResponseFromFirstElement(d, i + 1)
         ELSE getLatestResponseFromFirstElement(d, i + 1)

\* lines 219-229: the loop over the selectors, from selector i on
RECURSIVE getLatestResponseFrom(_, _)
getLatestResponseFrom(d, i) ==
    IF i > NumSelectors THEN Null
    ELSE LET elements == d[i] IN
         IF Len(elements) > 0
         THEN LET lastElement == elements[Len(elements)]
                  text == IF lastElement = Undefined THEN Undefined
                          ELSE trim(lastElement)
              IN IF text # Undefined /\ Len(text) > 0 /\ Len(text) > minTextLength
                 THEN text
                 ELSE getLatestResponseFrom(d, i + 1)
         ELSE getLatestResponseFrom(d, i + 1)

getLatestResponse(d) == getLatestResponseFrom(d, 1)

\* getLatestResponse() || ''   (line 181)
OrEmpty(r) == IF r = Null THEN <<>> ELSE r


----------------------------------------------------------------------------
(* Host validity and outbound messages *)

\* lines 9-11
isContextValid == hostValid

\* safeSendMessage without the check of lines 15-18
safeSendMessageUnguarded(message, throws) ==
    IF throws
    THEN [delivered |-> <<>>, raised |-> FALSE, caught |-> TRUE]
    ELSE [delivered |-> <<message>>, raised |-> FALSE, caught |-> FALSE]

\* lines 14-25.  `throws` says whether chrome.runtime.sendMessage throws on
\* this call.  The result: the messages handed to the host, whether an
\* exception leaves safeSendMessage (raised), and whether one was caught
\* and logged (line 23).
safeSendMessage(message, throws) ==
    IF ~isContextValid
    THEN [delivered |-> <<>>, raised |-> FALSE, caught |-> FALSE]
    ELSE IF throws
         THEN [delivered |-> <<>>, raised |-> FALSE, caught |-> TRUE]
         ELSE [delivered |-> <<message>>, raised |-> FALSE, caught |-> FALSE]

ReadyMessage == [type |-> "CONTENT_SCRIPT_READY", aiType |-> AI_TYPE, content |-> <<>>]

CapturedMessage(content) ==
    [type |-> "RESPONSE_CAPTURED", aiType |-> AI_TYPE, content |-> content]

NoMessage == [type |-> "none", aiType |-> AI_TYPE, content |-> <<>>]

\* the latest message of a sequence handed to the host, or `before`
Latest(before, delivered) ==
    IF Len(delivered) = 0 THEN before ELSE delivered[Len(delivered)]

----------------------------------------------------------------------------
(* The response-completion detector.                                       *)
(*                                                                         *)
(* A loop of waitForStreamingComplete is a record: its locals              *)
(* previousContent and stableCount, elapsed = Date.now() - startTime at    *)
(* its last reading of the clock, and what it has done so far: ticks (the  *)
(* number of samples taken; the next sample is tick number `ticks`),       *)
(* lastChange (the tick of the last sample that differed from the one      *)
(* before it), ramp (every tick from 1 to lastChange brought a new value), *)
(* sends (RESPONSE_CAPTURED messages it handed to the host) and base       *)
(* (lastCapturedContent when it started).                                  *)
(*                                                                         *)
(* The detector's share of the state is passed around as a record D, so    *)
(* that a handler calling waitForStreamingComplete several times in one    *)
(* task (the observer callback) is one action.                             *)

\* How a loop ended: the reason, and for a loop that reached the threshold
\* its content, the tick of its last sample and of its last change.
NoEnd == [reason |-> "none", content |-> <<>>, tick |-> 0, lastChange |-> 0,
          ramp |-> TRUE, sends |-> 0, caught |-> FALSE, expired |-> FALSE,
          kept |-> TRUE]

Detector == [isCapturing |-> isCapturing, sessions |-> sessions,
             lastEnd |-> lastEnd, outcome |-> "none"]

NewSession ==
    [previousContent |-> <<>>, stableCount |-> 0,
     elapsed |-> 0, ticks |-> 0, lastChange |-> 0, ramp |-> TRUE,
     sends |-> 0, base |-> lastCapturedContent]

EndRecord(s, reason, content, last, caught) ==
    LET reached == reason \in {"completed", "error"} IN
    [reason |-> reason,
     caught |-> caught,
     content |-> IF reached THEN content ELSE <<>>,
     tick |-> IF reached THEN s.ticks - 1 ELSE 0,
     lastChange |-> IF reached THEN s.lastChange ELSE 0,
     ramp |-> IF reached THEN s.ramp ELSE TRUE,
     sends |-> s.sends,
     expired |-> ~(s.elapsed < maxWait),
     kept |-> (last = s.base)]

RemoveAt(seq, i) == SubSeq(seq, 1, i - 1) \o SubSeq(seq, i + 1, Len(seq))

\* the finally block without line 205
finallyLeavesCapturing == TRUE

\* line 205: isCapturing once the finally block has run
finallyIsCapturing == FALSE

\* line 159 with the check dropped
AlreadyCapturingNever(D) == FALSE

\* line 159: the check that rejects a start request
AlreadyCapturing(D) == D.isCapturing

\* lines 158-179, up to the first await: the synchronous part of a call of
\* waitForStreamingComplete().  An exit before the first sleep runs the
\* finally block (line 205) in the same task.
waitForStreamingComplete(D) ==
    IF AlreadyCapturing(D)
    THEN [D EXCEPT !.outcome = "rejected"]
    ELSE LET s == NewSession IN
         IF ~(s.elapsed < maxWait)
         THEN [D EXCEPT !.isCapturing = finallyIsCapturing,
                        !.lastEnd = EndRecord(s, "timeout", <<>>, lastCapturedContent, FALSE),
                        !.outcome = "aborted"]
         ELSE IF ~isContextValid
         THEN [D EXCEPT !.isCapturing = finallyIsCapturing,
                        !.lastEnd = EndRecord(s, "invalid", <<>>, lastCapturedContent, FALSE),
                        !.outcome = "aborted"]
         ELSE [D EXCEPT !.isCapturing = TRUE,
                        !.sessions = Append(@, s),
                        !.lastEnd = NoEnd,
                        !.outcome = "created"]


\* line 183
Stable(currentContent, previousContent) ==
    currentContent = previousContent /\ Len(currentContent) > 0

\* line 186 counting samples instead of repeats: the first sample of a
\* value counts as one
ThresholdReachedEarly(stableCount) == stableCount + 1 >= stableThreshold

\* line 186 with > for >=
ThresholdReachedLate(stableCount) == stableCount > stableThreshold

\* line 186
ThresholdReached(stableCount) == stableCount >= stableThreshold

\* line 187 with the comparison dropped
DiffersFromLastAlways(currentContent) == TRUE

\* line 187
DiffersFromLast(currentContent) == currentContent # lastCapturedContent

\* lines 186-197 without the return of line 196: the loop goes on
CompleteNoReturn(s, currentContent, throws) ==
    IF DiffersFromLast(currentContent)
    THEN LET r == safeSendMessage(CapturedMessage(currentContent), throws) IN
         [s |-> [s EXCEPT !.sends = @ + Len(r.delivered),
                          !.previousContent = currentContent],
          end |-> IF r.raised THEN "error" ELSE "none",
          last |-> currentContent,
          delivered |-> r.delivered, raised |-> r.raised, caught |-> r.caught]
    ELSE [s |-> [s EXCEPT !.previousContent = currentContent],
          end |-> "none", last |-> lastCapturedContent,
          delivered |-> <<>>, raised |-> FALSE, caught |-> FALSE]

\* lines 186-197 without the call of safeSendMessage (lines 189-193)
CompleteSilent(s, currentContent, throws) ==
    [s |-> s, end |-> "completed",
     last |-> IF DiffersFromLast(currentContent) THEN currentContent
              ELSE lastCapturedContent,
     delivered |-> <<>>, raised |-> FALSE, caught |-> FALSE]

\* lines 186-197: the threshold is reached.  The result of a loop body is
\* the loop's record, how the body left the loop ("none": it did not), the
\* new lastCapturedContent, and what safeSendMessage did.
Complete(s, currentContent, throws) ==
    IF DiffersFromLast(currentContent)
    THEN LET r == safeSendMessage(CapturedMessage(currentContent), throws) IN
         [s |-> [s EXCEPT !.sends = @ + Len(r.delivered)],
          end |-> IF r.raised THEN "error" ELSE "completed",
          last |-> currentContent,
          delivered |-> r.delivered, raised |-> r.raised, caught |-> r.caught]
    ELSE [s |-> s, end |-> "completed", last |-> lastCapturedContent,
          delivered |-> <<>>, raised |-> FALSE, caught |-> FALSE]

\* lines 181-202: the body of one iteration, from the wake-up of the sleep
\* of line 179, which lasted `delay` ms, with currentContent the sample.
LoopBody(s, currentContent, delay, throws) ==
    LET changed == currentContent # s.previousContent
        woke == [s EXCEPT !.elapsed = @ + delay,
                          !.ticks = @ + 1,
                          !.lastChange = IF changed THEN s.ticks ELSE @,
                          !.ramp = @ /\ (changed =>
                                           (s.ticks = 0 \/ s.lastChange = s.ticks - 1))]
    IN IF Stable(currentContent, s.previousContent)
       THEN LET counted == [woke EXCEPT !.stableCount = @ + 1] IN
            IF ThresholdReached(counted.stableCount)
            THEN Complete(counted, currentContent, throws)
            ELSE [s |-> [counted EXCEPT !.previousContent = currentContent],
                  end |-> "none", last |-> lastCapturedContent,
                  delivered |-> <<>>, raised |-> FALSE, caught |-> FALSE]
       ELSE [s |-> [woke EXCEPT !.stableCount = 0, !.previousContent = currentContent],
             end |-> "none", last |-> lastCapturedContent,
             delivered |-> <<>>, raised |-> FALSE, caught |-> FALSE]

\* lines 173-177 without the check of lines 174-177
LoopHeadNoValidity(s) ==
    IF ~(s.elapsed < maxWait) THEN "timeout" ELSE "sleep"

\* lines 173-177 with while (true) for the condition of line 173
LoopHeadNoTimeout(s) ==
    IF ~isContextValid THEN "invalid" ELSE "sleep"

\* lines 173-177: the head of the next iteration
LoopHead(s) ==
    IF ~(s.elapsed < maxWait) THEN "timeout"
    ELSE IF ~isContextValid THEN "invalid"
    ELSE "sleep"

\* how long the sleep of line 179 can last: setTimeout fires no earlier
\* than asked, and arbitrarily later in a throttled or suspended tab.  A
\* loop takes at most `cap` samples at the nominal interval.
SleepDelays(s, cap) ==
    IF s.ticks < cap THEN {checkInterval, LongSleep} ELSE {LongSleep}

\* whether chrome.runtime.sendMessage throws matters only to a body that
\* calls it: `b` is what the body does when it does not throw
ThrowChoices(b) == IF Len(b.delivered) > 0 THEN BOOLEAN ELSE {FALSE}

\* One iteration of the i-th running loop: from the timer's wake-up to the
\* next sleep or to the exit through the finally block (line 205).
Iteration(i, cap) ==
    /\ i \in 1..Len(sessions)
    /\ \E delay \in SleepDelays(sessions[i], cap) :
       \E throws \in ThrowChoices(LoopBody(sessions[i], OrEmpty(getLatestResponse(dom)),
                                            delay, FALSE)) :
         LET s == sessions[i]
             currentContent == OrEmpty(getLatestResponse(dom))
             b == LoopBody(s, currentContent, delay, throws)
             how == IF b.end # "none" THEN b.end ELSE LoopHead(b.s)
         IN /\ lastCapturedContent' = b.last
            /\ lastSent' = Latest(lastSent, b.delivered)
            /\ uncaught' = (uncaught \/ b.raised)
            /\ IF how = "sleep"
               THEN /\ sessions' = [sessions EXCEPT ![i] = b.s]
                    /\ UNCHANGED <<isCapturing, lastEnd>>
               ELSE /\ sessions' = RemoveAt(sessions, i)
                    /\ isCapturing' = finallyIsCapturing
                    /\ lastEnd' = EndRecord(b.s, how, currentContent, b.last, b.caught)
    /\ UNCHANGED <<hostValid, loaded, readyState, observer, dom, readySent, inj, events,
                   snap>>

Tick(i) == Iteration(i, MaxTicks)

DeepTick(i) == Iteration(i, DeepTicks)

SnapTick(i) == Iteration(i, SnapTicks)

----------------------------------------------------------------------------
(* The mutation watcher.                                                   *)
(*                                                                         *)
(* An added node: its nodeType, the response selectors (line 143) it       *)
(* matches itself, and those one of its descendants matches.               *)

NumResponseSelectors == 3

TextNode == [nodeType |-> "TEXT", matches |-> {}, contains |-> {}]
PlainElement == [nodeType |-> "ELEMENT", matches |-> {}, contains |-> {}]
AnswerElement == [nodeType |-> "ELEMENT", matches |-> {1}, contains |-> {}]
WrapperElement == [nodeType |-> "ELEMENT", matches |-> {}, contains |-> {2, 3}]

NodeSet == {TextNode, PlainElement, AnswerElement, WrapperElement}

\* the added nodes of one callback, over its childList mutation records
BatchSet == { <<TextNode>>, <<PlainElement, WrapperElement>>,
              <<AnswerElement, WrapperElement>>, <<PlainElement>> }

\* lines 149-155 without node.querySelector?.(selector): only the node itself
RECURSIVE checkSelectorsSelfOnly(_, _, _)
checkSelectorsSelfOnly(D, node, i) ==
    IF i > NumResponseSelectors THEN D
    ELSE IF i \in node.matches
         THEN waitForStreamingComplete(D)
         ELSE checkSelectorsSelfOnly(D, node, i + 1)

\* lines 149-155: the loop over the response selectors, from selector i on
RECURSIVE checkSelectorsFrom(_, _, _)
checkSelectorsFrom(D, node, i) ==
    IF i > NumResponseSelectors THEN D
    ELSE IF i \in node.matches \/ i \in node.contains
         THEN waitForStreamingComplete(D)
         ELSE checkSelectorsFrom(D, node, i + 1)

\* lines 139-156
checkForResponse(D, node) ==
    IF D.isCapturing THEN D ELSE checkSelectorsFrom(D, node, 1)

\* lines 107-115: the loop over the added nodes, from node k on
RECURSIVE processAddedNodes(_, _, _)
processAddedNodes(D, batch, k) ==
    IF k > Len(batch) THEN D
    ELSE IF batch[k].nodeType = "ELEMENT"
         THEN processAddedNodes(checkForResponse(D, batch[k]), batch, k + 1)
         ELSE processAddedNodes(D, batch, k + 1)

\* lines 119-127
startObserving == IF ~isContextValid THEN "none" ELSE "observing"

\* lines 102-105 with the check dropped
observerInvalidNever == FALSE

\* line 102: the callback finds the host invalid
observerInvalid == ~isContextValid

\* lines 100-116: the MutationObserver callback
ObserverCallback ==
    /\ observer = "observing"
    /\ IF observerInvalid
       THEN /\ observer' = "disconnected"
            /\ UNCHANGED <<isCapturing, sessions, lastEnd>>
       ELSE \E batch \in BatchSet :
              LET D == processAddedNodes(Detector, batch, 1) IN
              /\ isCapturing' = D.isCapturing
              /\ sessions' = D.sessions
              /\ lastEnd' = D.lastEnd
              /\ UNCHANGED observer
    /\ UNCHANGED <<hostValid, loaded, readyState, dom, lastCapturedContent,
                   readySent, lastSent, uncaught, inj, events, snap>>

\* lines 129-133, the listener of line 130 firing
DOMContentLoaded ==
    /\ readyState = "loading"
    /\ readyState' = "interactive"
    /\ observer' = IF observer = "waiting" THEN startObserving ELSE observer
    /\ UNCHANGED <<hostValid, loaded, dom, lastCapturedContent, isCapturing,
                   sessions, lastEnd, readySent, lastSent, uncaught, inj, events,
                   snap>>

\* lines 3-240: the script body.  An exception out of line 28 would end it
\* before the listener and the observer are set up.
Main ==
    /\ loaded = "no"
    /\ \E throws \in BOOLEAN :
         LET r == safeSendMessage(ReadyMessage, throws) IN
         /\ readySent' = readySent + Len(r.delivered)
         /\ uncaught' = (uncaught \/ r.raised)
         /\ loaded' = IF r.raised THEN "failed" ELSE "yes"
         /\ observer' = IF r.raised THEN observer
                        ELSE IF readyState = "loading" THEN "waiting"
                        ELSE startObserving
    /\ UNCHANGED <<hostValid, readyState, dom, lastCapturedContent, isCapturing,
                   sessions, lastEnd, lastSent, inj, events, snap>>


----------------------------------------------------------------------------
(* The message injector.                                                   *)
(*                                                                         *)
(* The input DOM: what document.querySelector returns for each of the four *)
(* input selectors of line 51 (NoEl: null).                                *)

NumInputSelectors == 4

NoEl == [id |-> 0, tagName |-> "", isContentEditable |-> FALSE]
Textarea1 == [id |-> 1, tagName |-> "TEXTAREA", isContentEditable |-> FALSE]
Textarea2 == [id |-> 2, tagName |-> "TEXTAREA", isContentEditable |-> FALSE]
Editable == [id |-> 3, tagName |-> "DIV", isContentEditable |-> TRUE]

NoInput == [i \in 1..NumInputSelectors |-> NoEl]

InputDomSet ==
    { NoInput,
      [NoInput EXCEPT ![2] = Textarea2, ![3] = Textarea1],
      [NoInput EXCEPT ![4] = Editable] }

MessageSet == {"hello"}

\* lines 58-62: the loop over the input selectors, from selector i on
RECURSIVE resolveInputFrom(_, _)
resolveInputFrom(idom, i) ==
    IF i > NumInputSelectors THEN NoEl
    ELSE IF idom[i] # NoEl THEN idom[i]
    ELSE resolveInputFrom(idom, i + 1)

\* lines 58-62 without the break of line 61: the last selector decides
resolveInputNoBreak(idom) == idom[NumInputSelectors]

resolveInput(idom) == resolveInputFrom(idom, 1)

Event(r, el, ev, text) == [req |-> r, el |-> el.id, ev |-> ev, text |-> text]

\* lines 68-89 without the await of line 81: the Enter keydown follows the
\* write in the same task
writeEventsAndSubmit(r, inputEl, text) ==
    <<Event(r, inputEl, "focus", "")>> \o
    (IF inputEl.tagName = "TEXTAREA"
     THEN <<Event(r, inputEl, "value", text), Event(r, inputEl, "input", "")>>
     ELSE IF inputEl.isContentEditable
     THEN <<Event(r, inputEl, "textContent", text), Event(r, inputEl, "input", "")>>
     ELSE <<>>) \o
    <<Event(r, inputEl, "keydown", "Enter")>>

\* lines 68-78: focus, write, input notification
writeEvents(r, inputEl, text) ==
    <<Event(r, inputEl, "focus", "")>> \o
    (IF inputEl.tagName = "TEXTAREA"
     THEN <<Event(r, inputEl, "value", text), Event(r, inputEl, "input", "")>>
     ELSE IF inputEl.isContentEditable
     THEN <<Event(r, inputEl, "textContent", text), Event(r, inputEl, "input", "")>>
     ELSE <<>>)

\* lines 84-93: the Enter keydown, then the call of waitForStreamingComplete
submitEvents(r, inputEl, outcome) ==
    <<Event(r, inputEl, "keydown", "Enter"), Event(r, inputEl, "start", outcome)>>

\* lines 34-35: the response once injectMessage has settled
Failure(message) == [success |-> FALSE, error |-> message]
Success == [success |-> TRUE, error |-> ""]

\* lines 93-95 as `return waitForStreamingComplete()` with a detector that
\* rejects when it starts no loop
responseAfterStartStrict(outcome) ==
    IF outcome = "created" THEN [success |-> TRUE, error |-> ""]
    ELSE [success |-> FALSE, error |-> "capture not started"]

\* lines 93-95 with line 34: what the listener answers after the detector
\* start request came back with `outcome`
responseAfterStart(outcome) == Success

IdleRequest == [pc |-> "idle", el |-> NoEl, idom |-> NoInput,
                resp |-> Failure("pending")]

\* lines 31-37 and 49-81: an INJECT_MESSAGE request arrives; injectMessage
\* runs to its await (line 81) or throws (line 65)
InjectReceive(r) ==
    /\ loaded = "yes"
    /\ hostValid
    /\ inj[r].pc = "idle"
    /\ IF r = 1 THEN TRUE ELSE inj[r - 1].pc # "idle"
    /\ \E idom \in InputDomSet, text \in MessageSet :
         LET inputEl == resolveInput(idom) IN
         IF inputEl = NoEl
         THEN /\ inj' = [inj EXCEPT ![r] = [@ EXCEPT !.pc = "done", !.idom = idom,
                                   !.resp = Failure("Could not find input field")]]
              /\ UNCHANGED events
         ELSE /\ inj' = [inj EXCEPT ![r] = [@ EXCEPT !.pc = "settling", !.idom = idom,
                                                     !.el = inputEl]]
              /\ events' = [events EXCEPT ![r] = @ \o writeEvents(r, inputEl, text)]
    /\ UNCHANGED <<hostValid, loaded, readyState, observer, dom, lastCapturedContent,
                   isCapturing, sessions, lastEnd, readySent, lastSent, uncaught,
                   snap>>

\* lines 83-95 and 34: the settle delay is over
InjectResume(r) ==
    /\ inj[r].pc = "settling"
    /\ LET D == waitForStreamingComplete(Detector) IN
       /\ events' = [events EXCEPT ![r] = @ \o submitEvents(r, inj[r].el, D.outcome)]
       /\ isCapturing' = D.isCapturing
       /\ sessions' = D.sessions
       /\ lastEnd' = D.lastEnd
       /\ inj' = [inj EXCEPT ![r] = [@ EXCEPT !.pc = "done",
                                              !.resp = responseAfterStart(D.outcome)]]
    /\ UNCHANGED <<hostValid, loaded, readyState, observer, dom, lastCapturedContent,
                   readySent, lastSent, uncaught, snap>>

----------------------------------------------------------------------------
(* The snapshot query.                                                     *)
(*                                                                         *)
(* snap keeps the response to the latest GET_LATEST_RESPONSE request, the  *)
(* answer DOM it was computed from (at) and whether a loop was running     *)
(* when it was handled (active).                                           *)

NoSnap == [content |-> <<"none">>, at |-> NoMatch, active |-> FALSE]

\* lines 40-41 answering with the last captured content instead
snapshotResponseCaptured(d) ==
    [content |-> IF lastCapturedContent = <<>> THEN Null ELSE lastCapturedContent]

\* lines 40-41: the response to GET_LATEST_RESPONSE when the answer DOM is d
snapshotResponse(d) == [content |-> getLatestResponse(d)]

\* lines 39-43 with a call of waitForStreamingComplete() added
snapshotDetectorStarts(D) == waitForStreamingComplete(D)

\* lines 39-43: what the handler does to the detector: it calls nothing of it
snapshotDetector(D) == D

\* lines 31 and 39-43: a GET_LATEST_RESPONSE request arrives
GetLatestResponse ==
    /\ loaded = "yes"
    /\ hostValid
    /\ LET D == snapshotDetector(Detector) IN
       /\ snap' = [content |-> snapshotResponse(dom).content, at |-> dom,
                   active |-> isCapturing]
       /\ isCapturing' = D.isCapturing
       /\ sessions' = D.sessions
       /\ lastEnd' = D.lastEnd
    /\ UNCHANGED <<hostValid, loaded, readyState, observer, dom, lastCapturedContent,
                   readySent, lastSent, uncaught, inj, events>>

----------------------------------------------------------------------------
(* The environment *)

\* the extension is reloaded or removed: chrome.runtime.id is gone for good
HostInvalidate ==
    /\ hostValid
    /\ hostValid' = FALSE
    /\ UNCHANGED <<loaded, readyState, observer, dom, lastCapturedContent, isCapturing,
                   sessions, lastEnd, readySent, lastSent, uncaught, inj, events,
                   snap>>

\* the page's own script rewrites the answer area
DomChange ==
    /\ \E d \in DomSet \ {dom} : dom' = d
    /\ UNCHANGED <<hostValid, loaded, readyState, observer, lastCapturedContent,
                   isCapturing, sessions, lastEnd, readySent, lastSent, uncaught, inj, events,
                   snap>>

----------------------------------------------------------------------------

Init ==
    /\ hostValid = TRUE
    /\ loaded = "no"
    /\ readyState \in {"loading", "interactive"}
    /\ observer = "none"
    /\ dom = DomEmpty
    /\ lastCapturedContent = <<>>
    /\ isCapturing = FALSE
    /\ sessions = <<>>
    /\ lastEnd = NoEnd
    /\ readySent = 0
    /\ lastSent = NoMessage
    /\ uncaught = FALSE
    /\ inj = [r \in 1..MaxInject |-> IdleRequest]
    /\ events = [r \in 1..MaxInject |-> <<>>]
    /\ snap = NoSnap

Next ==
    \/ Main
    \/ DOMContentLoaded
    \/ HostInvalidate
    \/ DomChange
    \/ ObserverCallback
    \/ \E r \in 1..MaxInject : InjectReceive(r)
    \/ \E r \in 1..MaxInject : InjectResume(r)
    \/ \E i \in 1..Len(sessions) : Tick(i)

Spec == Init /\ [][Next]_vars

\* The detector alone: no INJECT_MESSAGE request arrives, and loops may
\* run longer at the nominal interval.
NextDetector ==
    \/ Main
    \/ DOMContentLoaded
    \/ HostInvalidate
    \/ DomChange
    \/ ObserverCallback
    \/ \E i \in 1..Len(sessions) : DeepTick(i)

SpecDetector == Init /\ [][NextDetector]_vars

\* The detector with GET_LATEST_RESPONSE requests arriving at any time.
NextSnapshot ==
    \/ Main
    \/ DOMContentLoaded
    \/ HostInvalidate
    \/ DomChange
    \/ ObserverCallback
    \/ GetLatestResponse
    \/ \E i \in 1..Len(sessions) : SnapTick(i)

SpecSnapshot == Init /\ [][NextSnapshot]_vars

\* Text extraction alone: the script has loaded in a page whose answer DOM
\* is any assignment of the element lists of ElementLists to the five
\* selectors, and GET_LATEST_RESPONSE requests read it.
ElementLists ==
    { <<>>, <<TxtA, TxtB>>, <<TxtB, TxtAPad>>, <<TxtShort>>, <<TxtBlank>>,
      <<Undefined>> }

ExtractDomSet == [1..NumSelectors -> ElementLists]

InitExtract ==
    /\ hostValid = TRUE
    /\ loaded = "yes"
    /\ readyState = "interactive"
    /\ observer = "observing"
    /\ dom \in ExtractDomSet
    /\ lastCapturedContent = <<>>
    /\ isCapturing = FALSE
    /\ sessions = <<>>
    /\ lastEnd = NoEnd
    /\ readySent \in {0, 1}
    /\ lastSent = NoMessage
    /\ uncaught = FALSE
    /\ inj = [r \in 1..MaxInject |-> IdleRequest]
    /\ events = [r \in 1..MaxInject |-> <<>>]
    /\ snap = NoSnap

NextExtract == GetLatestResponse

SpecExtract == InitExtract /\ [][NextExtract]_vars


----------------------------------------------------------------------------
(* Steps, as seen in the state *)

\* a loop left `sessions` in this step
LoopEnded == Len(sessions') < Len(sessions)

\* a loop ended in this step by reaching the stability threshold
CompletionStep == LoopEnded /\ lastEnd'.reason = "completed"

\* a loop took a sample in this step and went back to sleep
LoopAdvanced ==
    /\ Len(sessions') = Len(sessions)
    /\ \E i \in 1..Len(sessions) : sessions'[i].ticks = sessions[i].ticks + 1

\* the detector start request of INJECT_MESSAGE request r is made in this step
StartRequested(r) == inj[r].pc = "settling" /\ inj'[r].pc = "done"

\* a message is handed to the host in this step
SendStep ==
    \/ readySent' # readySent
    \/ lastSent' # lastSent
    \/ LoopEnded /\ lastEnd'.sends > 0
    \/ \E i \in 1..Len(sessions) :
         i <= Len(sessions') /\ sessions'[i].sends > sessions[i].sends

Started(outcome) ==
    \E r \in 1..MaxInject : \E k \in 1..Len(events[r]) :
       events[r][k].ev = "start" /\ events[r][k].text = outcome

----------------------------------------------------------------------------
(* C1.  Mutual exclusion: at most one loop of waitForStreamingComplete is  *)
(* running at any time, and isCapturing is true exactly while one runs.    *)
(* While isCapturing is true, no step other than the running loop's own    *)
(* iteration changes the loop (its previousContent, stableCount, ...) or   *)
(* isCapturing: a start request from INJECT_MESSAGE or from the mutation   *)
(* observer creates no second loop and resets nothing.                     *)
C1_MutualExclusion ==
    /\ [](Len(sessions) <= 1 /\ (isCapturing <=> Len(sessions) = 1))
    /\ [][isCapturing =>
            \/ sessions' = sessions /\ isCapturing' = isCapturing
            \/ LoopAdvanced /\ isCapturing' = isCapturing
            \/ LoopEnded /\ ~(\E r \in 1..MaxInject : StartRequested(r))]_vars

\* a start request of INJECT_MESSAGE was rejected while a loop that has
\* already sampled keeps running
C1_Witness ==
    /\ Started("rejected")
    /\ Len(sessions) = 1
    /\ sessions[1].ticks > 0
    /\ isCapturing

(* C2.  Stability law: a loop completes at the tick that is exactly        *)
(* stableThreshold ticks after the tick of the last change of the sample,  *)
(* never earlier, and no loop is still sampling a non-empty content        *)
(* stableThreshold ticks after its last change.                            *)
C2_StabilityLaw ==
    /\ lastEnd.reason = "completed" =>
         lastEnd.tick = lastEnd.lastChange + stableThreshold
    /\ \A i \in 1..Len(sessions) :
         sessions[i].previousContent # <<>> =>
           (sessions[i].ticks - 1) - sessions[i].lastChange < stableThreshold

\* the scenario: the sample changed on every tick up to tick 3 and then
\* held; the loop completed at tick 7 and sent its content
C2_Witness ==
    /\ lastEnd.reason = "completed"
    /\ lastEnd.ramp
    /\ lastEnd.lastChange = 3
    /\ lastEnd.tick = 7
    /\ lastEnd.sends = 1
    /\ lastSent = CapturedMessage(lastEnd.content)

(* C3.  Suppression law: a loop that reaches the threshold with content    *)
(* equal to lastCapturedContent sends nothing and leaves                   *)
(* lastCapturedContent unchanged; the loop still ends and isCapturing is   *)
(* reset.                                                                  *)
C3_Suppression ==
    [][(CompletionStep /\ lastEnd'.content = lastCapturedContent) =>
         /\ lastEnd'.sends = 0
         /\ lastSent' = lastSent
         /\ lastCapturedContent' = lastCapturedContent
         /\ isCapturing' = FALSE]_vars

\* a loop completed, with the host valid, on the content an earlier loop
\* had sent, and sent nothing
C3_Witness ==
    /\ lastEnd.reason = "completed"
    /\ lastEnd.content = lastCapturedContent
    /\ lastEnd.kept
    /\ lastEnd.sends = 0
    /\ lastSent = CapturedMessage(lastEnd.content)
    /\ hostValid

(* C4.  Cancellation: once the host is invalid, a loop that takes a sample *)
(* ends in that same iteration (so at most one sample is taken after the   *)
(* flip), no loop is created, and no message is handed to the host.        *)
C4_Cancellation ==
    [][~hostValid =>
         /\ ~LoopAdvanced
         /\ Len(sessions') <= Len(sessions)
         /\ ~SendStep]_vars

\* the host became invalid during a sleep; the one further sample reached
\* the threshold with new content, and nothing was sent
C4_Witness ==
    /\ ~hostValid
    /\ Len(sessions) = 0
    /\ lastEnd.reason = "completed"
    /\ ~lastEnd.kept
    /\ lastEnd.sends = 0
    /\ lastSent = NoMessage

(* C5.  At most one RESPONSE_CAPTURED message is sent per loop, running    *)
(* or finished.                                                            *)
C5_AtMostOneSend ==
    /\ \A i \in 1..Len(sessions) : sessions[i].sends <= 1
    /\ lastEnd.sends <= 1

\* a loop sent its one message after the sample had changed at least once
C5_Witness ==
    /\ lastEnd.sends = 1
    /\ lastEnd.lastChange >= 1
    /\ lastEnd.content = TxtB
    /\ lastSent = CapturedMessage(TxtB)


(* C6 as claimed.  Every loop that reaches the stability threshold sends   *)
(* exactly one RESPONSE_CAPTURED message.                                  *)
C6_ExactlyOnePerCompletion ==
    lastEnd.reason = "completed" => lastEnd.sends = 1

(* C6 as amended.  A loop that reaches the stability threshold sends at    *)
(* most one RESPONSE_CAPTURED message: exactly one when its content        *)
(* differs from lastCapturedContent, the host is valid and                 *)
(* chrome.runtime.sendMessage does not throw, and none otherwise.          *)
C6_OnePerEmittingCompletion ==
    [][CompletionStep =>
         /\ lastEnd'.sends <= 1
         /\ lastEnd'.sends = 1 <=>
              /\ lastEnd'.content # lastCapturedContent
              /\ hostValid
              /\ ~lastEnd'.caught]_vars

\* a loop completed on new content and delivered its one message
C6_Witness ==
    /\ lastEnd.reason = "completed"
    /\ ~lastEnd.kept
    /\ ~lastEnd.caught
    /\ lastEnd.sends = 1
    /\ lastCapturedContent = lastEnd.content

(* C7.  Silent timeout: no loop sleeps again once its elapsed time has     *)
(* reached maxWait, and a loop that ends on the ceiling has sent no        *)
(* RESPONSE_CAPTURED, has left lastCapturedContent as it was when the loop *)
(* started, and has reset isCapturing.                                     *)
C7_SilentTimeout ==
    /\ \A i \in 1..Len(sessions) : sessions[i].elapsed < maxWait
    /\ lastEnd.reason = "timeout" =>
         /\ lastEnd.expired
         /\ lastEnd.sends = 0
         /\ lastEnd.kept
         /\ ~isCapturing

\* with the host valid throughout, a loop gave up at the ceiling: nothing
\* was ever sent by a loop and no loop runs
C7_Witness ==
    /\ lastEnd.reason = "timeout"
    /\ lastEnd.expired
    /\ hostValid
    /\ lastCapturedContent = <<>>
    /\ lastSent = NoMessage
    /\ Len(sessions) = 0
    /\ ~isCapturing

\* the element of the first matching input selector, in priority order
FirstMatch(idom) ==
    LET hits == {i \in 1..NumInputSelectors : idom[i] # NoEl} IN
    IF hits = {} THEN NoEl
    ELSE idom[CHOOSE i \in hits : \A j \in hits : i <= j]

(* C8.  Injection: a request that finds no input selector matching is      *)
(* answered {success: false, error: 'Could not find input field'}, writes  *)
(* nothing to the DOM, dispatches no event and requests no detector start  *)
(* (isCapturing and the loops are unchanged); otherwise the element used   *)
(* is that of the first matching selector in priority order.               *)
C8_InputResolution ==
    /\ [](\A r \in 1..MaxInject :
            (inj[r].pc = "done" /\ ~inj[r].resp.success) =>
               /\ inj[r].resp = Failure("Could not find input field")
               /\ inj[r].idom = NoInput
               /\ events[r] = <<>>)
    /\ [][\A r \in 1..MaxInject :
            (inj[r].pc = "idle" /\ inj'[r].pc # "idle") =>
               IF inj'[r].idom = NoInput
               THEN /\ inj'[r].pc = "done"
                    /\ ~inj'[r].resp.success
                    /\ events' = events
                    /\ isCapturing' = isCapturing
                    /\ sessions' = sessions
               ELSE /\ inj'[r].pc = "settling"
                    /\ inj'[r].el = FirstMatch(inj'[r].idom)
                    /\ events'[r] # <<>>
                    /\ \A k \in 1..Len(events'[r]) :
                         events'[r][k].el = inj'[r].el.id]_vars

\* a request failed for want of an input field while a loop was running
C8_Witness ==
    \E r \in 1..MaxInject :
      /\ inj[r].pc = "done"
      /\ inj[r].resp = Failure("Could not find input field")
      /\ events[r] = <<>>
      /\ Len(sessions) = 1
      /\ isCapturing

(* C9.  Outbound messages: a message (CONTENT_SCRIPT_READY or              *)
(* RESPONSE_CAPTURED) is handed to the host only in a step in which the    *)
(* host is valid; no exception of a send reaches a caller; and a loop      *)
(* whose send threw has ended as completed, with isCapturing reset.        *)
C9_GuardedSends ==
    /\ [](~uncaught /\ loaded # "failed")
    /\ [](lastEnd.caught => lastEnd.reason = "completed" /\ ~isCapturing)
    /\ [][SendStep => hostValid]_vars

\* both kinds of message were delivered, then the send of a later loop
\* threw: the loop ended as completed and nothing escaped
C9_Witness ==
    /\ readySent = 1
    /\ lastSent # NoMessage
    /\ lastEnd.caught
    /\ lastEnd.reason = "completed"
    /\ lastEnd.content # lastSent.content
    /\ ~uncaught

(* C10.  A successful injection requests the detector start right after    *)
(* the Enter keydown on the same element, and the response is              *)
(* {success: true} whether the request created a loop, was rejected, or    *)
(* the loop aborted at once on an invalid host.                            *)
C10_SuccessRegardlessOfDetector ==
    /\ \A r \in 1..MaxInject : \A k \in 1..Len(events[r]) :
         events[r][k].ev = "start" =>
           /\ events[r][k].text \in {"created", "rejected", "aborted"}
           /\ k > 1
           /\ events[r][k - 1].ev = "keydown"
           /\ events[r][k - 1].el = events[r][k].el
           /\ inj[r].pc = "done"
           /\ inj[r].resp = Success
    /\ \A r \in 1..MaxInject :
         (inj[r].pc = "done" /\ inj[r].idom # NoInput) =>
           /\ inj[r].resp = Success
           /\ \E k \in 1..Len(events[r]) : events[r][k].ev = "start"

\* the host became invalid during the settle delay: the start request
\* aborted at once, and the response is still success
C10_Witness ==
    /\ Started("aborted")
    /\ ~hostValid
    /\ \E r \in 1..MaxInject : inj[r].pc = "done" /\ inj[r].resp = Success

\* an added element that matches, or contains a match of, a response selector
HasMatch(node) ==
    node.nodeType = "ELEMENT" /\ (node.matches \cup node.contains) # {}

\* the detector after a start request: one loop, with previousContent empty
\* and stableCount zero, and isCapturing set
FreshLoop(capturing, loops) ==
    /\ capturing
    /\ Len(loops) = 1
    /\ loops[1].previousContent = <<>>
    /\ loops[1].stableCount = 0
    /\ loops[1].ticks = 0

(* C11.  Re-triggerability: every end of a loop, by whichever path         *)
(* (completion with or without a message, host invalidation, timeout),     *)
(* leaves isCapturing false and no loop running; a start request made      *)
(* while isCapturing is false is never rejected, and with the host valid   *)
(* it creates a loop with previousContent empty and stableCount zero,      *)
(* whether it comes from INJECT_MESSAGE or from the mutation observer.     *)
C11_Retrigger ==
    /\ [][(LoopEnded \/ (lastEnd' # lastEnd /\ lastEnd'.reason # "none")) =>
            ~isCapturing' /\ sessions' = <<>>]_vars
    /\ [][Len(sessions') > Len(sessions) =>
            ~isCapturing /\ FreshLoop(isCapturing', sessions')]_vars
    /\ [][\A r \in 1..MaxInject :
            (StartRequested(r) /\ ~isCapturing) =>
               /\ events'[r][Len(events'[r])].text # "rejected"
               /\ hostValid => FreshLoop(isCapturing', sessions')]_vars
    /\ [](\A batch \in BatchSet :
            (~isCapturing /\ hostValid /\ \E k \in 1..Len(batch) : HasMatch(batch[k])) =>
               LET D == processAddedNodes(Detector, batch, 1)
               IN FreshLoop(D.isCapturing, D.sessions))

\* a loop completed and sent its message, and a later start request has
\* created a new loop that has not sampled yet
C11_Witness ==
    /\ lastSent # NoMessage
    /\ lastCapturedContent = lastSent.content
    /\ Started("created")
    /\ FreshLoop(isCapturing, sessions)

(* C12.  Watcher detachment: a mutation-observer callback that runs with   *)
(* the host invalid disconnects the observer and processes no added node   *)
(* (no loop is created, no start request is made); a disconnected observer *)
(* stays disconnected and starts no loop afterwards; and an observer that  *)
(* is not attached is never attached while the host is invalid.            *)
C12_WatcherDetachment ==
    /\ [][observer = "disconnected" =>
            /\ observer' = "disconnected"
            /\ Len(sessions') <= Len(sessions)
            /\ (lastEnd' = lastEnd \/ LoopEnded)]_vars
    /\ [][(~hostValid /\ observer = "observing") =>
            \/ /\ observer' = "disconnected"
               /\ UNCHANGED <<isCapturing, sessions, lastEnd>>
            \/ /\ observer' = observer
               /\ (lastEnd' = lastEnd \/ LoopEnded)]_vars
    /\ [][(~hostValid /\ observer # "observing") => observer' # "observing"]_vars

\* the observer was attached, a loop it had started ran, the host became
\* invalid and a callback has disconnected the observer
C12_Witness ==
    /\ observer = "disconnected"
    /\ ~hostValid
    /\ lastEnd.reason = "invalid"
    /\ sessions = <<>>

\* the sample that corresponds to a response content: empty for null
SampleOf(content) == IF content = Null THEN <<>> ELSE content

(* C13.  Snapshot idempotence: as long as the answer DOM is the one the    *)
(* latest GET_LATEST_RESPONSE response was computed from, every further    *)
(* request is answered with the same content, whether or not a loop is     *)
(* running; and a loop that samples that DOM reads the same value, the     *)
(* empty sample standing for null.                                         *)
C13_SnapshotIdempotence ==
    /\ [][(snap # NoSnap /\ snap.at = dom /\ dom' = dom) =>
            snap'.content = snap.content]_vars
    /\ [][(snap # NoSnap /\ snap.at = dom /\ LoopAdvanced) =>
            sessions'[1].previousContent = SampleOf(snap.content)]_vars
    /\ [][(snap # NoSnap /\ snap.at = dom /\ CompletionStep) =>
            lastEnd'.content = SampleOf(snap.content)]_vars

\* a request answered with a text while a loop was running, on the DOM
\* that is still there, and the loop has since sampled that text
C13_Witness ==
    /\ snap # NoSnap
    /\ snap.active
    /\ snap.at = dom
    /\ snap.content = TxtA
    /\ Len(sessions) = 1
    /\ sessions[1].previousContent = TxtA
    /\ sessions[1].stableCount >= 1

\* the trimmed text of the last element of a non-empty list of matches
LastText(elements) ==
    LET e == elements[Len(elements)] IN IF e = Undefined THEN Undefined ELSE trim(e)

Acceptable(text) == text # Undefined /\ Len(text) > minTextLength

\* the candidates that match at least one element of d
Matching(d) == {i \in 1..NumSelectors : Len(d[i]) > 0}

Least(S) == CHOOSE i \in S : \A j \in S : i <= j

\* the first candidate with any match decides
FirstMatchReference(d) ==
    IF Matching(d) = {} THEN Null
    ELSE LET t == LastText(d[Least(Matching(d))]) IN
         IF Acceptable(t) THEN t ELSE Null

\* the first candidate whose last match has an acceptable text decides
FirstAcceptableReference(d) ==
    LET ok == {i \in Matching(d) : Acceptable(LastText(d[i]))} IN
    IF ok = {} THEN Null ELSE LastText(d[Least(ok)])

(* C14 as claimed.  Text extraction: the content returned for a DOM is     *)
(* decided by the first candidate, in priority order, that matches any     *)
(* element: the trimmed text of its last match if longer than 10           *)
(* characters, and null otherwise.                                         *)
C14_FirstMatchDecides ==
    snap # NoSnap => snap.content = FirstMatchReference(snap.at)

(* C14 as amended.  Text extraction: the content returned for a DOM is     *)
(* the trimmed text of the last match of the first candidate, in priority  *)
(* order, for which that text is longer than 10 characters; a candidate    *)
(* whose last match has no acceptable text is passed over; null when no    *)
(* candidate has one.                                                      *)
C14_FirstAcceptableDecides ==
    snap # NoSnap => snap.content = FirstAcceptableReference(snap.at)

\* the first candidate matches only a short text, the second an element
\* without innerText; the padded text of the third one's last match is
\* returned trimmed
C14_Witness ==
    /\ snap # NoSnap
    /\ snap.at[1] = <<TxtShort>>
    /\ snap.at[2] = <<Undefined>>
    /\ snap.at[3] = <<TxtB, TxtAPad>>
    /\ snap.at[4] = <<TxtA, TxtB>>
    /\ snap.content = TxtA

\* the number of consecutive samples, up to the latest one, that had the
\* value of the latest one
SameSamples(ticks, lastChange) == ticks - lastChange

(* C15 as claimed.  stableThreshold consecutive identical non-empty        *)
(* samples complete a loop: no loop is still running after reading the     *)
(* same non-empty value on stableThreshold consecutive ticks, and a loop   *)
(* that completes has read its content on exactly that many.               *)
C15_ThresholdCountsSamples ==
    /\ \A i \in 1..Len(sessions) :
         sessions[i].previousContent # <<>> =>
           SameSamples(sessions[i].ticks, sessions[i].lastChange) < stableThreshold
    /\ lastEnd.reason = "completed" =>
         SameSamples(lastEnd.tick + 1, lastEnd.lastChange) = stableThreshold

(* C15 as amended.  stableThreshold counts the consecutive repeats of the  *)
(* previous sample: stableCount is one less than the number of             *)
(* consecutive identical non-empty samples, a loop completes as soon as    *)
(* it has read the same non-empty value on stableThreshold + 1             *)
(* consecutive ticks, and never with fewer.                                *)
C15_ThresholdCountsRepeats ==
    /\ \A i \in 1..Len(sessions) :
         sessions[i].previousContent # <<>> =>
           /\ sessions[i].stableCount + 1 =
                SameSamples(sessions[i].ticks, sessions[i].lastChange)
           /\ SameSamples(sessions[i].ticks, sessions[i].lastChange) < stableThreshold + 1
    /\ lastEnd.reason = "completed" =>
         SameSamples(lastEnd.tick + 1, lastEnd.lastChange) = stableThreshold + 1

\* a loop whose first sample was already the final text: it completed at
\* tick stableThreshold, on the fifth identical sample
C15_Witness ==
    /\ lastEnd.reason = "completed"
    /\ lastEnd.lastChange = 0
    /\ lastEnd.tick = stableThreshold
    /\ lastEnd.content # <<>>

(* C16.  Last-emitted baseline: lastCapturedContent is the content of the  *)
(* latest RESPONSE_CAPTURED message handed to the host (empty when there   *)
(* is none); a loop that ends on host invalidation or on the ceiling       *)
(* leaves it as it was, and so does a loop that reaches the threshold      *)
(* without handing a message to the host.                                  *)
C16_BaselineIsLastDelivered ==
    /\ lastCapturedContent = lastSent.content
    /\ lastEnd.reason \in {"invalid", "timeout"} => lastEnd.kept
    /\ (lastEnd.reason = "completed" /\ lastEnd.sends = 0) => lastEnd.kept

\* the write that line 72-78 make on element el: value for a textarea,
\* textContent for a content-editable element
WriteKind(el) == IF el.tagName = "TEXTAREA" THEN "value" ELSE "textContent"

\* the events of a request up to the settle delay: focus, the write of the
\* text, the input notification, all on the resolved element
WrittenAndNotified(r) ==
    /\ Len(events[r]) >= 3
    /\ events[r][1].ev = "focus"
    /\ events[r][2].ev = WriteKind(inj[r].el)
    /\ events[r][2].text \in MessageSet
    /\ events[r][3].ev = "input"
    /\ \A k \in 1..3 : events[r][k].el = inj[r].el.id

(* C17.  Injection ordering: a request whose input element was resolved    *)
(* writes the text (value for a textarea, textContent for a                *)
(* content-editable element) and dispatches the input notification on it   *)
(* before the settle delay; during the delay no keydown has been           *)
(* dispatched; the Enter keydown comes after the delay, on the same        *)
(* element, as the fourth event of the request, whatever other requests,   *)
(* observer callbacks and loop iterations ran in between.                  *)
C17_InjectionOrder ==
    \A r \in 1..MaxInject :
      /\ inj[r].pc = "settling" =>
           /\ WrittenAndNotified(r)
           /\ Len(events[r]) = 3
      /\ (inj[r].pc = "done" /\ inj[r].resp.success) =>
           /\ WrittenAndNotified(r)
           /\ Len(events[r]) = 5
           /\ events[r][4] = Event(r, inj[r].el, "keydown", "Enter")
      /\ \A k \in 1..Len(events[r]) :
           events[r][k].ev = "keydown" => (k = 4 /\ inj[r].pc = "done")

\* a content-editable element was written and notified, an observer
\* callback started a loop during the settle delay, and the keydown
\* followed: the start request of the injection was rejected
C17_Witness ==
    \E r \in 1..MaxInject :
      /\ inj[r].pc = "done"
      /\ inj[r].el = Editable
      /\ events[r][2].ev = "textContent"
      /\ events[r][4].ev = "keydown"
      /\ events[r][5].text = "rejected"

\* the detector's state proper, without the outcome of the latest call
DetectorState(D) == <<D.isCapturing, D.sessions, D.lastEnd>>

(* C18.  Watcher trigger: with the host valid and the observer attached,   *)
(* the notification of an added node creates a loop if and only if no      *)
(* loop is running and the node is an element that matches, or has a       *)
(* descendant that matches, a response selector; then exactly one loop is  *)
(* created, although the node may match several selectors; in every other  *)
(* case (a loop is running, no match, not an element) the detector's       *)
(* state is unchanged.  A batch of added nodes creates at most one loop,   *)
(* and every loop is created with the host valid and no loop running.      *)
C18_WatcherTrigger ==
    /\ []((hostValid /\ observer = "observing") =>
            \A node \in NodeSet :
              LET D == processAddedNodes(Detector, <<node>>, 1) IN
              IF ~isCapturing /\ HasMatch(node)
              THEN /\ FreshLoop(D.isCapturing, D.sessions)
                   /\ D.lastEnd = NoEnd
              ELSE DetectorState(D) = DetectorState(Detector))
    /\ []((hostValid /\ observer = "observing") =>
            \A batch \in BatchSet :
              LET D == processAddedNodes(Detector, batch, 1) IN
              /\ Len(D.sessions) <= 1
              /\ ((\E k \in 1..Len(batch) : HasMatch(batch[k])) \/ isCapturing)
                   <=> D.isCapturing)
    /\ [][Len(sessions') > Len(sessions) =>
            /\ hostValid /\ ~isCapturing /\ observer = "observing"
            /\ FreshLoop(isCapturing', sessions')]_vars

\* the observer has started a loop, which has sampled, and is still
\* attached: further notifications leave the loop alone
C18_Witness ==
    /\ observer = "observing"
    /\ hostValid
    /\ Len(sessions) = 1
    /\ sessions[1].ticks = 2
    /\ sessions[1].stableCount = 1

(* C19.  Frame condition of the snapshot query: a step that answers a      *)
(* GET_LATEST_RESPONSE request changes neither isCapturing nor             *)
(* lastCapturedContent nor any loop (its previousContent, stableCount and  *)
(* elapsed time), creates and ends no loop and hands no message to the     *)
(* host; with requests arriving at any time, a running loop's elapsed time *)
(* is still one interval per sample and a loop still completes exactly     *)
(* stableThreshold ticks after its last change.                            *)
C19_SnapshotFrame ==
    /\ [][snap' # snap =>
            UNCHANGED <<isCapturing, lastCapturedContent, sessions, lastEnd,
                        readySent, lastSent, uncaught, observer, dom>>]_vars
    /\ [](\A i \in 1..Len(sessions) :
            sessions[i].elapsed = checkInterval * sessions[i].ticks)
    /\ [](lastEnd.reason = "completed" =>
            lastEnd.tick - lastEnd.lastChange = stableThreshold)

\* a request was answered between two ticks of a running loop, with the
\* text the loop goes on counting
C19_Witness ==
    /\ snap # NoSnap
    /\ snap.active
    /\ snap.at = dom
    /\ Len(sessions) = 1
    /\ sessions[1].previousContent = snap.content
    /\ sessions[1].stableCount = stableThreshold - 1
    /\ lastSent = NoMessage

(* C20.  Every RESPONSE_CAPTURED message handed to the host carries a      *)
(* non-empty content, which its loop read identically on                   *)
(* stableThreshold + 1 consecutive ticks; and a RESPONSE_CAPTURED message  *)
(* never carries the content of the RESPONSE_CAPTURED message handed to    *)
(* the host before it.                                                     *)
C20_SentContents ==
    /\ [](lastSent # NoMessage =>
            /\ lastSent.type = "RESPONSE_CAPTURED"
            /\ Len(lastSent.content) > 0)
    /\ [][(CompletionStep /\ lastEnd'.sends = 1) =>
            /\ lastSent' = CapturedMessage(lastEnd'.content)
            /\ SameSamples(lastEnd'.tick + 1, lastEnd'.lastChange) = stableThreshold + 1
            /\ lastSent # NoMessage => lastEnd'.content # lastSent.content]_vars

=============================================================================
